---- MODULE Spec2Model ----
(***************************************************************************)
(* A model of glh, a convenience layer over the OpenGL driver: the shader  *)
(* ProgramBuilder (src/src/shader.rs), create_buffer and                   *)
(* enable_interleaved_vertex_array_attributes (src/src/vertex_array.rs).   *)
(* The driver context is the record gl; every library function is an      *)
(* operator that threads the context through the driver calls it makes, in *)
(* the order the source makes them, and returns the new context with the   *)
(* function's result.  gl.log is the list of driver calls made by the      *)
(* library call in progress.                                               *)
(***************************************************************************)
EXTENDS Integers, Sequences, FiniteSets, TLC

VARIABLES gl, ret, builder, shaders, pending

vars == <<gl, ret, builder, shaders, pending>>

(***************************************************************************)
(* Bounds of the model.                                                     *)
(***************************************************************************)
\* Object names the driver can hand out before it reports exhaustion.
MaxNames == 3
\* Longest sizes slice given to enable_interleaved_vertex_array_attributes.
MaxSizesLen == 2
\* Longest data slice given to create_buffer.
MaxDataLen == 1
\* The longest pixel data handed to the texture functions.
MaxPixelDataLen == 4

(***************************************************************************)
(* Values.                                                                 *)
(***************************************************************************)
\* Result<T, Error>
Ok(v) == [ok |-> TRUE, val |-> v, err |-> [fmt |-> "", name |-> "", text |-> <<>>]]

\* An error message: the format string and what is formatted into it.
Error(fmt, name, text) == [fmt |-> fmt, name |-> name, text |-> text]

Err(e) == [ok |-> FALSE, val |-> 0, err |-> e]

\* One driver call: the function, the object it acts on, one more argument,
\* and the text passed in or handed back.
Call(fn, obj, arg, txt) == [fn |-> fn, obj |-> obj, arg |-> arg, txt |-> txt]

ShaderTypes ==
    {"VERTEX_SHADER", "FRAGMENT_SHADER", "GEOMETRY_SHADER",
     "TESS_CONTROL_SHADER", "TESS_EVALUATION_SHADER", "COMPUTE_SHADER"}

\* The GLenum values with_shader is called with: the six stages and one
\* value that is no shader type.
ShaderTypeValues == ShaderTypes \cup {"NOT_A_SHADER_TYPE"}

SeqsUpTo(S, n) == UNION {[1..k -> S] : k \in 0..n}

\* Shader sources, as bytes: the empty source, an ordinary one, and two with
\* an interior NUL byte.
Sources == {<<>>, <<65>>, <<0>>, <<65, 0, 66>>}

\* Diagnostics the driver may produce: none, or a short ASCII text.
InfoLogs == {<<>>, <<69>>}

\* What the driver decides for one with_shader call: whether CreateShader
\* hands out a name, and how the compilation ends.
CompileOutcomes ==
    {[ok |-> TRUE, log |-> <<>>]} \cup {[ok |-> FALSE, log |-> l] : l \in InfoLogs}

\* (When it hands out none, nothing is compiled.)
ShaderDriver ==
    {[grant |-> FALSE, compile |-> [ok |-> FALSE, log |-> <<>>]]}
        \cup [grant : {TRUE}, compile : CompileOutcomes]

\* What the driver decides for one build call.
ProgramDriver ==
    {[grant |-> FALSE, link |-> [ok |-> FALSE, log |-> <<>>]]}
        \cup [grant : {TRUE}, link : CompileOutcomes]

\* The six stages, listed.
StageList ==
    <<"VERTEX_SHADER", "FRAGMENT_SHADER", "GEOMETRY_SHADER",
      "TESS_CONTROL_SHADER", "TESS_EVALUATION_SHADER", "COMPUTE_SHADER">>

Reverse(s) == [i \in DOMAIN s |-> s[Len(s) + 1 - i]]

\* The orders in which a HashMap with key set S is iterated here: the order
\* depends on the map's hasher, and the model takes two orders, in which
\* every two keys come both ways round.
Orders(S) ==
    LET Member(x) == x \in S
    IN  {SelectSeq(StageList, Member), SelectSeq(Reverse(StageList), Member)}

(***************************************************************************)
(* The driver.                                                             *)
(***************************************************************************)
GlInit ==
    [next_name |-> 1,
     live_shaders |-> {}, deletes |-> <<>>, shader_status |-> <<>>,
     flagged |-> {},
     live_programs |-> {}, program_deletes |-> <<>>, program_status |-> <<>>,
     attached |-> {},
     live_buffers |-> {}, buffer_deletes |-> <<>>, buffer_data |-> <<>>,
     errors |-> {},
     vertex_array_binding |-> 0, array_buffer_binding |-> 0,
     live_textures |-> {}, texture_binding |-> 0, texture_images |-> <<>>,
     texture_params |-> {},
     log |-> <<>>]

Logged(g, c) == [g EXCEPT !.log = Append(@, c)]

ClearLog(g) == [g EXCEPT !.log = <<>>]

glCreateShader(g, shader_type, grant) ==
    LET h == IF grant /\ g.next_name <= MaxNames THEN g.next_name ELSE 0
        g1 == Logged(g, Call("CreateShader", h, 0, shader_type))
    IN  IF h = 0 THEN [g |-> g1, out |-> 0]
        ELSE [g |-> [g1 EXCEPT !.next_name = @ + 1,
                               !.live_shaders = @ \cup {h},
                               !.deletes = @ @@ (h :> 0),
                               !.shader_status = @ @@ (h :> [ok |-> FALSE, log |-> <<>>])],
              out |-> h]

glShaderSource(g, shader, c_str) ==
    Logged(g, Call("ShaderSource", shader, 0, c_str))

glCompileShader(g, shader, outcome) ==
    [Logged(g, Call("CompileShader", shader, 0, <<>>))
        EXCEPT !.shader_status[shader] = outcome]

glGetShaderiv(g, shader, pname) ==
    LET st == g.shader_status[shader]
        out == IF pname = "COMPILE_STATUS" THEN (IF st.ok THEN 1 ELSE 0)
               ELSE (IF st.log = <<>> THEN 0 ELSE Len(st.log) + 1)
    IN  [g |-> Logged(g, Call("GetShaderiv", shader, out, pname)), out |-> out]

\* Writes at most length bytes, the terminating NUL included, into a buffer
\* of length zero bytes.
glGetShaderInfoLog(g, shader, length) ==
    LET log == g.shader_status[shader].log
        out == [i \in 1..length |-> IF i <= Len(log) THEN log[i] ELSE 0]
    IN  [g |-> Logged(g, Call("GetShaderInfoLog", shader, length, out)), out |-> out]

\* A shader that is attached to a program is flagged and deleted when it is
\* detached; deleting name 0 is ignored.
glDeleteShader(g, shader) ==
    LET g1 == Logged(g, Call("DeleteShader", shader, 0, <<>>))
    IN  IF shader \notin DOMAIN g1.deletes THEN g1
        ELSE LET g2 == [g1 EXCEPT !.deletes[shader] = @ + 1]
             IN  IF \E p \in g2.live_programs : <<p, shader>> \in g2.attached
                 THEN [g2 EXCEPT !.flagged = @ \cup {shader}]
                 ELSE [g2 EXCEPT !.live_shaders = @ \ {shader}]

glCreateProgram(g, grant) ==
    LET p == IF grant /\ g.next_name <= MaxNames THEN g.next_name ELSE 0
        g1 == Logged(g, Call("CreateProgram", p, 0, <<>>))
    IN  IF p = 0 THEN [g |-> g1, out |-> 0]
        ELSE [g |-> [g1 EXCEPT !.next_name = @ + 1,
                               !.live_programs = @ \cup {p},
                               !.program_deletes = @ @@ (p :> 0),
                               !.program_status = @ @@ (p :> [ok |-> FALSE, log |-> <<>>])],
              out |-> p]

glAttachShader(g, program, shader) ==
    [Logged(g, Call("AttachShader", program, shader, <<>>))
        EXCEPT !.attached = @ \cup {<<program, shader>>}]

glLinkProgram(g, program, outcome) ==
    [Logged(g, Call("LinkProgram", program, 0, <<>>))
        EXCEPT !.program_status[program] = outcome]

glDetachShader(g, program, shader) ==
    LET g1 == [Logged(g, Call("DetachShader", program, shader, <<>>))
                  EXCEPT !.attached = @ \ {<<program, shader>>}]
    IN  IF shader \in g1.flagged /\ ~\E p \in g1.live_programs : <<p, shader>> \in g1.attached
        THEN [g1 EXCEPT !.flagged = @ \ {shader}, !.live_shaders = @ \ {shader}]
        ELSE g1

glGetProgramiv(g, program, pname) ==
    LET st == g.program_status[program]
        out == IF pname = "LINK_STATUS" THEN (IF st.ok THEN 1 ELSE 0)
               ELSE (IF st.log = <<>> THEN 0 ELSE Len(st.log) + 1)
    IN  [g |-> Logged(g, Call("GetProgramiv", program, out, pname)), out |-> out]

glGetProgramInfoLog(g, program, length) ==
    LET log == g.program_status[program].log
        out == [i \in 1..length |-> IF i <= Len(log) THEN log[i] ELSE 0]
    IN  [g |-> Logged(g, Call("GetProgramInfoLog", program, length, out)), out |-> out]

glDeleteProgram(g, program) ==
    LET g1 == Logged(g, Call("DeleteProgram", program, 0, <<>>))
    IN  IF program \notin DOMAIN g1.program_deletes THEN g1
        ELSE [g1 EXCEPT !.program_deletes[program] = @ + 1,
                        !.live_programs = @ \ {program},
                        !.attached = {a \in @ : a[1] # program}]

(***************************************************************************)
(* shader.rs                                                               *)
(***************************************************************************)
shader_type_name(shader_type) ==
    CASE shader_type = "VERTEX_SHADER" -> Ok("Vertex")
      [] shader_type = "FRAGMENT_SHADER" -> Ok("Fragment")
      [] shader_type = "GEOMETRY_SHADER" -> Ok("Geometry")
      [] shader_type = "TESS_CONTROL_SHADER" -> Ok("Tess Control")
      [] shader_type = "TESS_EVALUATION_SHADER" -> Ok("Tess Evaluation")
      [] shader_type = "COMPUTE_SHADER" -> Ok("Compute")
      [] OTHER -> Err(Error("Invalid shader type: {}", shader_type, <<>>))

\* CString::new: refuses a source with an interior NUL byte, and appends the
\* terminating NUL otherwise.
CStringNew(source) ==
    IF \E i \in DOMAIN source : source[i] = 0
    THEN Err(Error("Failed to convert source to CString", "", <<>>))
    ELSE Ok(Append(source, 0))

\* String::from_utf8_lossy: a byte that is not ASCII (the driver's texts hold
\* no multi-byte sequence here) becomes U+FFFD.
from_utf8_lossy(bytes) ==
    [i \in DOMAIN bytes |-> IF bytes[i] < 128 THEN bytes[i] ELSE 65533]

\* compile_shader with a slip: the shader whose compilation failed is not deleted.
compile_shader_keeps_failed_shader(g, source, shader_type, drv) ==
    LET name == shader_type_name(shader_type)
    IN  IF ~name.ok THEN [g |-> g, res |-> name]
        ELSE
        LET c == glCreateShader(g, shader_type, drv.grant)
            shader == c.out
        IN  IF shader = 0
            THEN [g |-> c.g, res |-> Err(Error("Failed to create {} shader", name.val, <<>>))]
            ELSE
            LET c_str == CStringNew(source)
            IN  IF ~c_str.ok THEN [g |-> c.g, res |-> c_str]
                ELSE
                LET g1 == glShaderSource(c.g, shader, c_str.val)
                    g2 == glCompileShader(g1, shader, drv.compile)
                    status == glGetShaderiv(g2, shader, "COMPILE_STATUS")
                IN  IF status.out # 1
                    THEN LET length == glGetShaderiv(status.g, shader, "INFO_LOG_LENGTH")
                             info == glGetShaderInfoLog(length.g, shader, length.out)
                             info_log == from_utf8_lossy(info.out)
                         IN  [g |-> info.g,
                              res |-> Err(Error("{} Shader compilation failed: {}",
                                                name.val, info_log))]
                    ELSE [g |-> status.g, res |-> Ok(shader)]

compile_shader(g, source, shader_type, drv) ==
    LET name == shader_type_name(shader_type)
    IN  IF ~name.ok THEN [g |-> g, res |-> name]
        ELSE
        LET c == glCreateShader(g, shader_type, drv.grant)
            shader == c.out
        IN  IF shader = 0
            THEN [g |-> c.g, res |-> Err(Error("Failed to create {} shader", name.val, <<>>))]
            ELSE
            LET c_str == CStringNew(source)
            IN  IF ~c_str.ok THEN [g |-> c.g, res |-> c_str]
                ELSE
                LET g1 == glShaderSource(c.g, shader, c_str.val)
                    g2 == glCompileShader(g1, shader, drv.compile)
                    status == glGetShaderiv(g2, shader, "COMPILE_STATUS")
                IN  IF status.out # 1
                    THEN LET length == glGetShaderiv(status.g, shader, "INFO_LOG_LENGTH")
                             info == glGetShaderInfoLog(length.g, shader, length.out)
                             info_log == from_utf8_lossy(info.out)
                             g3 == glDeleteShader(info.g, shader)
                         IN  [g |-> g3,
                              res |-> Err(Error("{} Shader compilation failed: {}",
                                                name.val, info_log))]
                    ELSE [g |-> status.g, res |-> Ok(shader)]

RECURSIVE AttachAll(_, _, _)
AttachAll(g, program, ids) ==
    IF ids = <<>> THEN g
    ELSE AttachAll(glAttachShader(g, program, Head(ids)), program, Tail(ids))

RECURSIVE DetachAll(_, _, _)
DetachAll(g, program, ids) ==
    IF ids = <<>> THEN g
    ELSE DetachAll(glDetachShader(g, program, Head(ids)), program, Tail(ids))

\* create_program with a slip: the link status is read right after the link,
\* and a failed link returns before the shaders are detached and the program
\* is deleted.
create_program_returns_before_cleanup(g, shader_ids, drv) ==
    LET c == glCreateProgram(g, drv.grant)
        program == c.out
    IN  IF program = 0
        THEN [g |-> c.g, res |-> Err(Error("Failed to create program", "", <<>>))]
        ELSE
        LET g1 == AttachAll(c.g, program, shader_ids)
            g2 == glLinkProgram(g1, program, drv.link)
            status == glGetProgramiv(g2, program, "LINK_STATUS")
        IN  IF status.out # 1
            THEN LET length == glGetProgramiv(status.g, program, "INFO_LOG_LENGTH")
                     info == glGetProgramInfoLog(length.g, program, length.out)
                     info_log == from_utf8_lossy(info.out)
                 IN  [g |-> info.g,
                      res |-> Err(Error("Program linking failed: {}", "", info_log))]
            ELSE [g |-> DetachAll(status.g, program, shader_ids), res |-> Ok(program)]

create_program(g, shader_ids, drv) ==
    LET c == glCreateProgram(g, drv.grant)
        program == c.out
    IN  IF program = 0
        THEN [g |-> c.g, res |-> Err(Error("Failed to create program", "", <<>>))]
        ELSE
        LET g1 == AttachAll(c.g, program, shader_ids)
            g2 == glLinkProgram(g1, program, drv.link)
            g3 == DetachAll(g2, program, shader_ids)
            status == glGetProgramiv(g3, program, "LINK_STATUS")
        IN  IF status.out # 1
            THEN LET length == glGetProgramiv(status.g, program, "INFO_LOG_LENGTH")
                     info == glGetProgramInfoLog(length.g, program, length.out)
                     info_log == from_utf8_lossy(info.out)
                     g4 == glDeleteProgram(info.g, program)
                 IN  [g |-> g4,
                      res |-> Err(Error("Program linking failed: {}", "", info_log))]
            ELSE [g |-> status.g, res |-> Ok(program)]

\* The values of the map self in iteration order ord.
Values(self, ord) == [i \in DOMAIN ord |-> self[ord[i]]]

RECURSIVE DeleteAll(_, _)
DeleteAll(g, ids) ==
    IF ids = <<>> THEN g ELSE DeleteAll(glDeleteShader(g, Head(ids)), Tail(ids))

\* impl Drop for ProgramBuilder
Drop(g, self, ord) == DeleteAll(g, Values(self, ord))

\* with_shader with a slip: no test for a stage that is already there, so the
\* new handle replaces the old one in the map.
with_shader_without_duplicate_test(self, g, shader_type, source, drv, ord) ==
    LET c == compile_shader(g, source, shader_type, drv)
    IN  IF ~c.res.ok THEN [g |-> Drop(c.g, self, ord), self |-> self, res |-> c.res]
        ELSE [g |-> c.g,
              self |-> [t \in DOMAIN self \cup {shader_type} |->
                           IF t = shader_type THEN c.res.val ELSE self[t]],
              res |-> Ok(0)]

\* with_shader takes the builder by value: on Err it is dropped on return, on
\* Ok it is handed back to the caller.
with_shader(self, g, shader_type, source, drv, ord) ==
    IF shader_type \in DOMAIN self
    THEN LET name == shader_type_name(shader_type)
         IN  IF ~name.ok THEN [g |-> Drop(g, self, ord), self |-> self, res |-> name]
             ELSE [g |-> Drop(g, self, ord), self |-> self,
                   res |-> Err(Error("{} Shader type already added", name.val, <<>>))]
    ELSE LET c == compile_shader(g, source, shader_type, drv)
         IN  IF ~c.res.ok THEN [g |-> Drop(c.g, self, ord), self |-> self, res |-> c.res]
             ELSE [g |-> c.g, self |-> self @@ (shader_type :> c.res.val), res |-> Ok(0)]

\* build with a slip: no test for an empty builder.
build_without_empty_test(self, g, drv, ord) ==
    LET shader_ids == Values(self, ord)
        r == create_program(g, shader_ids, drv)
    IN  [g |-> Drop(r.g, self, ord), res |-> r.res]

\* build with a slip: the builder's shaders are deleted before the program is
\* created and linked.
build_drops_shaders_first(self, g, drv, ord) ==
    IF DOMAIN self = {}
    THEN [g |-> Drop(g, self, ord),
          res |-> Err(Error("No shaders added to the program", "", <<>>))]
    ELSE LET shader_ids == Values(self, ord)
             r == create_program(Drop(g, self, ord), shader_ids, drv)
         IN  [g |-> r.g, res |-> r.res]

\* build takes the builder by value: it is dropped on every return.
build(self, g, drv, ord) ==
    IF DOMAIN self = {}
    THEN [g |-> Drop(g, self, ord),
          res |-> Err(Error("No shaders added to the program", "", <<>>))]
    ELSE LET shader_ids == Values(self, ord)
             r == create_program(g, shader_ids, drv)
         IN  [g |-> Drop(r.g, self, ord), res |-> r.res]

(***************************************************************************)
(* The life of one ProgramBuilder.                                         *)
(***************************************************************************)
NoCall == [op |-> "none", args |-> <<>>, res |-> Ok(0)]

\* ProgramBuilder::new() has run: the builder is alive and holds no shader.
Init ==
    /\ gl = GlInit
    /\ ret = NoCall
    /\ builder = "alive"
    /\ shaders = <<>>
    /\ pending = <<>>

WithShader ==
    /\ builder = "alive"
    /\ \E shader_type \in ShaderTypeValues, source \in Sources,
          drv \in ShaderDriver, ord \in Orders(DOMAIN shaders) :
          LET r == with_shader(shaders, ClearLog(gl), shader_type, source, drv, ord)
          IN  /\ gl' = r.g
              /\ shaders' = r.self
              /\ builder' = IF r.res.ok THEN "alive" ELSE "gone"
              /\ ret' = [op |-> "with_shader",
                         args |-> [shader_type |-> shader_type, source |-> source],
                         res |-> r.res]
    /\ UNCHANGED pending

Build ==
    /\ builder = "alive"
    /\ \E drv \in ProgramDriver, ord \in Orders(DOMAIN shaders) :
          LET r == build(shaders, ClearLog(gl), drv, ord)
          IN  /\ gl' = r.g
              /\ ret' = [op |-> "build", args |-> <<>>, res |-> r.res]
    /\ builder' = "gone"
    /\ UNCHANGED <<shaders, pending>>

\* The builder goes out of scope without build.
DropBuilder ==
    /\ builder = "alive"
    /\ \E ord \in Orders(DOMAIN shaders) :
          /\ gl' = Drop(ClearLog(gl), shaders, ord)
          /\ ret' = [op |-> "drop", args |-> <<>>, res |-> Ok(0)]
    /\ builder' = "gone"
    /\ UNCHANGED <<shaders, pending>>

NextBuilder == WithShader \/ Build \/ DropBuilder

SpecBuilder == Init /\ [][NextBuilder]_vars

(***************************************************************************)
(* vertex_array.rs: enable_interleaved_vertex_array_attributes             *)
(***************************************************************************)
\* i32
MaxI32 == 2147483647

MinI32 == -MaxI32 - 1

\* a + b in i32: the wrapped value, and whether the sum left the range.
I32Add(a, b) ==
    IF b > 0 /\ a > MaxI32 - b
    THEN [val |-> (a + MinI32) + (b + MinI32), overflow |-> TRUE]
    ELSE IF b < 0 /\ a < MinI32 - b
    THEN [val |-> (a - MinI32) + (b - MinI32), overflow |-> TRUE]
    ELSE [val |-> a + b, overflow |-> FALSE]

\* a * k in i32, for k >= 1, by repeated addition.
RECURSIVE I32Mul(_, _)
I32Mul(a, k) ==
    IF k = 1 THEN [val |-> a, overflow |-> FALSE]
    ELSE LET rest == I32Mul(a, k - 1)
             sum == I32Add(rest.val, a)
         IN  [val |-> sum.val, overflow |-> rest.overflow \/ sum.overflow]

\* sizes.iter().sum::<i32>()
RECURSIVE I32Sum(_)
I32Sum(sizes) ==
    IF sizes = <<>> THEN [val |-> 0, overflow |-> FALSE]
    ELSE LET rest == I32Sum(SubSeq(sizes, 1, Len(sizes) - 1))
             sum == I32Add(rest.val, sizes[Len(sizes)])
         IN  [val |-> sum.val, overflow |-> rest.overflow \/ sum.overflow]

\* A u32, as its two 16-bit halves.
U32(n) == [hi |-> n \div 65536, lo |-> n % 65536]

\* `x as GLuint`, for an i32 x: a negative x is read as x + 2^32.
AsGLuint(x) ==
    IF x >= 0 THEN U32(x)
    ELSE [hi |-> (x - MinI32) \div 65536 + 32768, lo |-> (x - MinI32) % 65536]

\* `x as *const c_void`, for an i32 x: sign-extended to the width of a
\* pointer; the upper and the lower 32 bits.
AsPointer(x) ==
    [upper |-> IF x >= 0 THEN U32(0) ELSE [hi |-> 65535, lo |-> 65535],
     lower |-> AsGLuint(x)]

ComponentTypes ==
    {"FLOAT", "DOUBLE", "BYTE", "UNSIGNED_BYTE", "SHORT", "UNSIGNED_SHORT",
     "INT", "UNSIGNED_INT"}

\* The GLenum values given as type_: the eight types and one other value.
ComponentTypeValues == ComponentTypes \cup {"NOT_A_COMPONENT_TYPE"}

component_size(type_) ==
    CASE type_ = "FLOAT" -> Ok(4)
      [] type_ = "DOUBLE" -> Ok(8)
      [] type_ = "BYTE" -> Ok(1)
      [] type_ = "UNSIGNED_BYTE" -> Ok(1)
      [] type_ = "SHORT" -> Ok(2)
      [] type_ = "UNSIGNED_SHORT" -> Ok(2)
      [] type_ = "INT" -> Ok(4)
      [] type_ = "UNSIGNED_INT" -> Ok(4)
      [] OTHER -> Err(Error("enable_interleaved_vertex_attributes: Invalid type: {}",
                            type_, <<>>))

glBindVertexArray(g, vao) ==
    [Logged(g, Call("BindVertexArray", vao, 0, <<>>)) EXCEPT !.vertex_array_binding = vao]

glBindBuffer(g, target, buffer) ==
    IF target = "ARRAY_BUFFER"
    THEN [Logged(g, Call("BindBuffer", buffer, 0, target)) EXCEPT !.array_buffer_binding = buffer]
    ELSE Logged(g, Call("BindBuffer", buffer, 0, target))

glEnableVertexAttribArray(g, index) ==
    Logged(g, Call("EnableVertexAttribArray", index, 0,
                   [vao |-> g.vertex_array_binding]))

\* The attribute is specified in the vertex array that is bound, and reads
\* from the buffer that is bound to ARRAY_BUFFER.
glVertexAttribPointer(g, index, size, type_, normalized, stride, pointer) ==
    Logged(g, Call("VertexAttribPointer", index, size,
                   [type_ |-> type_, normalized |-> normalized, stride |-> stride,
                    pointer |-> pointer,
                    vao |-> g.vertex_array_binding, buffer |-> g.array_buffer_binding]))

\* An arithmetic overflow panics when the build checks overflow, and wraps
\* otherwise.
Panics(c, r) == c.overflow_checks /\ r.overflow

Returned(g, res) == [g |-> g, res |-> res, panicked |-> FALSE]

Panicked(g) == [g |-> g, res |-> Ok(0), panicked |-> TRUE]

\* The loop over sizes, from its i-th element on; c holds the arguments, the
\* component size and the stride.
RECURSIVE AttributeLoop(_, _, _, _)
AttributeLoop(g, c, i, offset) ==
    IF i > Len(c.sizes) THEN Returned(g, Ok(0))
    ELSE
    LET size == c.sizes[i]
        index == I32Add(c.start_index, i - 1)
    IN  IF Panics(c, index) THEN Panicked(g)
        ELSE
        LET g1 == glEnableVertexAttribArray(g, AsGLuint(index.val))
            g2 == glVertexAttribPointer(g1, AsGLuint(index.val), size, c.type_,
                                        c.normalized, c.stride, AsPointer(offset))
            step == I32Mul(size, c.component_size)
            next == I32Add(offset, step.val)
        IN  IF Panics(c, step) \/ Panics(c, next) THEN Panicked(g2)
            ELSE AttributeLoop(g2, c, i + 1, next.val)

\* enable_interleaved_vertex_array_attributes with a slip: the vertex array
\* and the buffer are bound before the component type is looked at.
enable_attributes_binds_first(g, a) ==
    IF a.sizes = <<>>
    THEN Returned(g, Err(Error("enable_interleaved_vertex_attributes: Sizes array is empty",
                               "", <<>>)))
    ELSE
    LET g1 == glBindVertexArray(g, a.vao)
        g2 == glBindBuffer(g1, "ARRAY_BUFFER", a.buffer)
        component_size_ == component_size(a.type_)
    IN  IF ~component_size_.ok THEN Returned(g2, component_size_)
        ELSE
        LET sum == I32Sum(a.sizes)
            stride == I32Mul(sum.val, component_size_.val)
        IN  IF Panics(a, sum) \/ Panics(a, stride) THEN Panicked(g2)
            ELSE AttributeLoop(g2, [a EXCEPT !.component_size = component_size_.val,
                                             !.stride = stride.val], 1, 0)

\* enable_interleaved_vertex_array_attributes with a slip: the offset is
\* advanced before the attribute is specified, not after.
enable_attributes_offset_one_ahead(g, a) ==
    IF a.sizes = <<>>
    THEN Returned(g, Err(Error("enable_interleaved_vertex_attributes: Sizes array is empty",
                               "", <<>>)))
    ELSE
    LET component_size_ == component_size(a.type_)
    IN  IF ~component_size_.ok THEN Returned(g, component_size_)
        ELSE
        LET sum == I32Sum(a.sizes)
            stride == I32Mul(sum.val, component_size_.val)
            first == I32Mul(a.sizes[1], component_size_.val)
        IN  IF Panics(a, sum) \/ Panics(a, stride) THEN Panicked(g)
            ELSE
            LET g1 == glBindVertexArray(g, a.vao)
                g2 == glBindBuffer(g1, "ARRAY_BUFFER", a.buffer)
            IN  AttributeLoop(g2, [a EXCEPT !.component_size = component_size_.val,
                                            !.stride = stride.val], 1, first.val)

\* enable_interleaved_vertex_array_attributes with a slip: the buffer is
\* bound after the attributes are specified, not before.
enable_attributes_binds_buffer_last(g, a) ==
    IF a.sizes = <<>>
    THEN Returned(g, Err(Error("enable_interleaved_vertex_attributes: Sizes array is empty",
                               "", <<>>)))
    ELSE
    LET component_size_ == component_size(a.type_)
    IN  IF ~component_size_.ok THEN Returned(g, component_size_)
        ELSE
        LET sum == I32Sum(a.sizes)
            stride == I32Mul(sum.val, component_size_.val)
        IN  IF Panics(a, sum) \/ Panics(a, stride) THEN Panicked(g)
            ELSE
            LET g1 == glBindVertexArray(g, a.vao)
                r == AttributeLoop(g1, [a EXCEPT !.component_size = component_size_.val,
                                                 !.stride = stride.val], 1, 0)
            IN  IF r.panicked THEN r
                ELSE Returned(glBindBuffer(r.g, "ARRAY_BUFFER", a.buffer), r.res)

\* The arguments a are vao, buffer, type_, normalized, start_index and sizes;
\* a.overflow_checks is the build's setting, and a.component_size and
\* a.stride are the function's locals, set here.
enable_interleaved_vertex_array_attributes(g, a) ==
    IF a.sizes = <<>>
    THEN Returned(g, Err(Error("enable_interleaved_vertex_attributes: Sizes array is empty",
                               "", <<>>)))
    ELSE
    LET component_size_ == component_size(a.type_)
    IN  IF ~component_size_.ok THEN Returned(g, component_size_)
        ELSE
        LET sum == I32Sum(a.sizes)
            stride == I32Mul(sum.val, component_size_.val)
        IN  IF Panics(a, sum) \/ Panics(a, stride) THEN Panicked(g)
            ELSE
            LET g1 == glBindVertexArray(g, a.vao)
                g2 == glBindBuffer(g1, "ARRAY_BUFFER", a.buffer)
            IN  AttributeLoop(g2, [a EXCEPT !.component_size = component_size_.val,
                                            !.stride = stride.val], 1, 0)

(***************************************************************************)
(* One call of enable_interleaved_vertex_array_attributes: the arguments   *)
(* and the bindings the call finds are drawn by InitVertex.                *)
(***************************************************************************)
\* Component counts: two ordinary ones, and two so large that the sums and
\* products of the layout leave i32.
SizeValues == {1, 3, 2 ^ 28, 2 ^ 30}

StartIndices == {0, 3, MaxI32}

\* The names of the vertex array objects and of the buffer objects that
\* exist; vao and buffer are such names.
ObjectNames == {1, 2}

\* What is bound when the call is made: nothing, or objects of other code.
PriorBindings == {<<0, 0>>, <<1, 2>>, <<2, 1>>}

VertexCalls ==
    [vao : ObjectNames, buffer : ObjectNames, type_ : ComponentTypeValues,
     normalized : BOOLEAN, start_index : StartIndices,
     sizes : SeqsUpTo(SizeValues, MaxSizesLen), overflow_checks : BOOLEAN,
     component_size : {0}, stride : {0}]

InitVertex ==
    /\ pending \in VertexCalls
    /\ \E b \in PriorBindings :
          gl = [GlInit EXCEPT !.vertex_array_binding = b[1], !.array_buffer_binding = b[2]]
    /\ ret = NoCall
    /\ builder = "none"
    /\ shaders = <<>>

EnableAttributes ==
    /\ pending # <<>>
    /\ LET r == enable_interleaved_vertex_array_attributes(ClearLog(gl), pending)
       IN  /\ gl' = r.g
           /\ ret' = [op |-> "enable_interleaved_vertex_array_attributes",
                      args |-> pending, res |-> r.res, panicked |-> r.panicked]
    /\ pending' = <<>>
    /\ UNCHANGED <<builder, shaders>>

NextVertex == EnableAttributes

SpecVertex == InitVertex /\ [][NextVertex]_vars

(***************************************************************************)
(* vertex_array.rs: get_error and create_buffer                            *)
(***************************************************************************)
ErrorCodes ==
    {"INVALID_ENUM", "INVALID_VALUE", "INVALID_OPERATION", "STACK_OVERFLOW",
     "STACK_UNDERFLOW", "OUT_OF_MEMORY", "INVALID_FRAMEBUFFER_OPERATION"}

\* The driver's error register holds a set of flags; GetError hands back one
\* of them and clears it, or NO_ERROR when none is set.
glGetError(g) ==
    IF g.errors = {}
    THEN [g |-> Logged(g, Call("GetError", 0, 0, "NO_ERROR")), out |-> "NO_ERROR"]
    ELSE LET e == CHOOSE x \in g.errors : TRUE
         IN  [g |-> [Logged(g, Call("GetError", 0, 0, e)) EXCEPT !.errors = @ \ {e}],
              out |-> e]

Raised(g, error) ==
    IF error = "NO_ERROR" THEN g ELSE [g EXCEPT !.errors = @ \cup {error}]

\* CreateBuffers(1, &mut buffer): the driver writes a fresh name or leaves
\* buffer as it is, and may raise an error.
glCreateBuffers(g, buffer, outcome) ==
    LET b == IF outcome.named /\ g.next_name <= MaxNames THEN g.next_name ELSE buffer
        g1 == Raised(Logged(g, Call("CreateBuffers", b, 1, outcome.error)), outcome.error)
    IN  IF b = buffer THEN [g |-> g1, out |-> b]
        ELSE [g |-> [g1 EXCEPT !.next_name = @ + 1,
                               !.live_buffers = @ \cup {b},
                               !.buffer_deletes = @ @@ (b :> 0)],
              out |-> b]

\* NamedBufferData: the data store is created unless the driver raises an
\* error.
glNamedBufferData(g, buffer, size, usage, error) ==
    LET g1 == Raised(Logged(g, Call("NamedBufferData", buffer, size, usage)), error)
    IN  IF error = "NO_ERROR" /\ buffer \in g1.live_buffers
        THEN [g1 EXCEPT !.buffer_data =
                 [b \in DOMAIN @ \cup {buffer} |->
                     IF b = buffer THEN [size |-> size, usage |-> usage] ELSE @[b]]]
        ELSE g1

glDeleteBuffers(g, buffer) ==
    LET g1 == Logged(g, Call("DeleteBuffers", buffer, 1, <<>>))
    IN  IF buffer \notin DOMAIN g1.buffer_deletes THEN g1
        ELSE [g1 EXCEPT !.buffer_deletes[buffer] = @ + 1,
                        !.live_buffers = @ \ {buffer}]

\* Option<String>
None == [some |-> FALSE, val |-> Error("", "", <<>>)]

Some(v) == [some |-> TRUE, val |-> v]

error_message(error_code) ==
    CASE error_code = "INVALID_ENUM" ->
            "GL_INVALID_ENUM: An unacceptable value is specified for an enumerated argument."
      [] error_code = "INVALID_VALUE" ->
            "GL_INVALID_VALUE: A numeric argument is out of range."
      [] error_code = "INVALID_OPERATION" ->
            "GL_INVALID_OPERATION: The specified operation is not allowed in the current state."
      [] error_code = "STACK_OVERFLOW" ->
            "GL_STACK_OVERFLOW: A stack pushing operation would overflow the maximum stack size."
      [] error_code = "STACK_UNDERFLOW" ->
            "GL_STACK_UNDERFLOW: A stack popping operation would underflow the minimum stack size."
      [] error_code = "OUT_OF_MEMORY" ->
            "GL_OUT_OF_MEMORY: There is not enough memory left to execute the command."
      [] error_code = "INVALID_FRAMEBUFFER_OPERATION" ->
            "GL_INVALID_FRAMEBUFFER_OPERATION: The framebuffer object is not complete."
      [] OTHER -> "Unknown OpenGL error"

get_error(g) ==
    LET e == glGetError(g)
    IN  IF e.out # "NO_ERROR"
        THEN [g |-> e.g,
              out |-> Some(Error("OpenGL Error ({}): {}", e.out, error_message(e.out)))]
        ELSE [g |-> e.g, out |-> None]

\* while gl::GetError() != gl::NO_ERROR {}
RECURSIVE DrainErrors(_)
DrainErrors(g) ==
    LET e == glGetError(g)
    IN  IF e.out # "NO_ERROR" THEN DrainErrors(e.g) ELSE e.g

VALID_USAGES ==
    {"STREAM_DRAW", "STREAM_READ", "STREAM_COPY",
     "STATIC_DRAW", "STATIC_READ", "STATIC_COPY",
     "DYNAMIC_DRAW", "DYNAMIC_READ", "DYNAMIC_COPY"}

\* The GLenum values given as usage: the nine hints and one other value.
UsageValues == VALID_USAGES \cup {"NOT_A_USAGE"}

EmptyData == Error("create_buffer(...): Data array is empty", "", <<>>)

InvalidUsage(usage) ==
    Error("create_buffer(...): Invalid usage for buffer: {}; Must be one of [gl::STREAM_DRAW, gl::STREAM_READ, gl::STREAM_COPY, gl::STATIC_DRAW, gl::STATIC_READ, gl::STATIC_COPY, gl::DYNAMIC_DRAW, gl::DYNAMIC_READ, gl::DYNAMIC_COPY]",
          usage, <<>>)

\* create_buffer with a slip: the error register is drained before the
\* arguments are looked at.
create_buffer_drains_first(g, a, drv) ==
    LET g0 == DrainErrors(g)
    IN  IF a.data = <<>>
        THEN [g |-> g0, res |-> Err(EmptyData)]
        ELSE IF a.usage \notin VALID_USAGES
        THEN [g |-> g0,
              res |-> Err(InvalidUsage(a.usage))]
        ELSE
        LET c == glCreateBuffers(g0, 0, drv.create)
            buffer == c.out
            e1 == get_error(c.g)
        IN  IF e1.out.some
            THEN [g |-> e1.g, res |-> Err(Error("Failed to create buffer: {}", "", e1.out.val))]
            ELSE IF buffer = 0
            THEN [g |-> e1.g,
                  res |-> Err(Error("gl::CreateBuffers returned an invalid buffer ID (0)", "", <<>>))]
            ELSE
            LET size == Len(a.data) * a.size_of
                g2 == DrainErrors(e1.g)
                g3 == glNamedBufferData(g2, buffer, size, a.usage, drv.upload)
                e2 == get_error(g3)
            IN  IF e2.out.some
                THEN [g |-> glDeleteBuffers(e2.g, buffer),
                      res |-> Err(Error("Failed to set buffer data: {}", "", e2.out.val))]
                ELSE [g |-> e2.g, res |-> Ok(buffer)]

\* create_buffer with a slip: the error register is not drained before
\* CreateBuffers.
create_buffer_without_first_drain(g, a, drv) ==
    IF a.data = <<>>
    THEN [g |-> g, res |-> Err(EmptyData)]
    ELSE IF a.usage \notin VALID_USAGES
    THEN [g |-> g,
          res |-> Err(InvalidUsage(a.usage))]
    ELSE
    LET c == glCreateBuffers(g, 0, drv.create)
        buffer == c.out
        e1 == get_error(c.g)
    IN  IF e1.out.some
        THEN [g |-> e1.g, res |-> Err(Error("Failed to create buffer: {}", "", e1.out.val))]
        ELSE IF buffer = 0
        THEN [g |-> e1.g,
              res |-> Err(Error("gl::CreateBuffers returned an invalid buffer ID (0)", "", <<>>))]
        ELSE
        LET size == Len(a.data) * a.size_of
            g2 == DrainErrors(e1.g)
            g3 == glNamedBufferData(g2, buffer, size, a.usage, drv.upload)
            e2 == get_error(g3)
        IN  IF e2.out.some
            THEN [g |-> glDeleteBuffers(e2.g, buffer),
                  res |-> Err(Error("Failed to set buffer data: {}", "", e2.out.val))]
            ELSE [g |-> e2.g, res |-> Ok(buffer)]

\* The arguments a are data and usage, with a.size_of the size of T; drv is
\* what the driver decides for CreateBuffers and for NamedBufferData.
create_buffer(g, a, drv) ==
    IF a.data = <<>>
    THEN [g |-> g, res |-> Err(EmptyData)]
    ELSE IF a.usage \notin VALID_USAGES
    THEN [g |-> g,
          res |-> Err(InvalidUsage(a.usage))]
    ELSE
    LET g0 == DrainErrors(g)
        c == glCreateBuffers(g0, 0, drv.create)
        buffer == c.out
        e1 == get_error(c.g)
    IN  IF e1.out.some
        THEN [g |-> e1.g, res |-> Err(Error("Failed to create buffer: {}", "", e1.out.val))]
        ELSE IF buffer = 0
        THEN [g |-> e1.g,
              res |-> Err(Error("gl::CreateBuffers returned an invalid buffer ID (0)", "", <<>>))]
        ELSE
        LET size == Len(a.data) * a.size_of
            g2 == DrainErrors(e1.g)
            g3 == glNamedBufferData(g2, buffer, size, a.usage, drv.upload)
            e2 == get_error(g3)
        IN  IF e2.out.some
            THEN [g |-> glDeleteBuffers(e2.g, buffer),
                  res |-> Err(Error("Failed to set buffer data: {}", "", e2.out.val))]
            ELSE [g |-> e2.g, res |-> Ok(buffer)]

(***************************************************************************)
(* One call of create_buffer: the arguments and the error flags that other *)
(* code has left in the register are drawn by InitBuffer.                  *)
(***************************************************************************)
DataBytes == {7}

\* std::mem::size_of::<T>() for the element types taken: u8 and f32.
ElementSizes == {1, 4}

BufferCalls ==
    [data : SeqsUpTo(DataBytes, MaxDataLen), size_of : ElementSizes, usage : UsageValues]

\* The flags pending when the call is made.
StaleErrors == {{}, {"INVALID_ENUM"}, {"INVALID_ENUM", "INVALID_OPERATION"}}

\* What the driver decides for one create_buffer call.  An error other than
\* OUT_OF_MEMORY leaves the call without effect; after OUT_OF_MEMORY the
\* state is undefined, and a name may or may not have been written.
BufferDriver ==
    [create : {[named |-> TRUE, error |-> "NO_ERROR"],
               [named |-> FALSE, error |-> "NO_ERROR"],
               [named |-> FALSE, error |-> "INVALID_VALUE"],
               [named |-> FALSE, error |-> "OUT_OF_MEMORY"],
               [named |-> TRUE, error |-> "OUT_OF_MEMORY"]},
     upload : {"NO_ERROR", "INVALID_OPERATION", "OUT_OF_MEMORY"}]

InitBuffer ==
    /\ pending \in BufferCalls
    /\ \E stale \in StaleErrors : gl = [GlInit EXCEPT !.errors = stale]
    /\ ret = NoCall
    /\ builder = "none"
    /\ shaders = <<>>

CreateBuffer ==
    /\ pending # <<>>
    /\ \E drv \in BufferDriver :
          LET r == create_buffer(ClearLog(gl), pending, drv)
          IN  /\ gl' = r.g
              /\ ret' = [op |-> "create_buffer", args |-> pending, res |-> r.res,
                         drv |-> drv, stale |-> gl.errors]
    /\ pending' = <<>>
    /\ UNCHANGED <<builder, shaders>>

NextBuffer == CreateBuffer

SpecBuffer == InitBuffer /\ [][NextBuffer]_vars

(***************************************************************************)
(* texture.rs: the four create_texture_2d_* functions and                  *)
(* detail::create_texture_2d                                               *)
(***************************************************************************)
\* a * b in i32, for a >= 0 and b >= 0: the wrapped value, computed from
\* the 16-bit halves of a and b so that every intermediate value is below
\* 2^31, and whether the product left the range.
I32Times(a, b) ==
    LET al == a % 65536
        ah == a \div 65536
        bl == b % 65536
        bh == b \div 65536
        t1 == (al \div 256) * bl
        t0 == (al % 256) * bl
        low == (t1 % 256) * 256 + t0
        lo == low % 65536
        hi == ((t1 \div 256) + (low \div 65536) + ((ah * bl) % 65536)
                  + ((al * bh) % 65536)) % 65536
    IN  [val |-> IF hi >= 32768 THEN ((hi - 32768) * 65536 + lo) + MinI32
                 ELSE hi * 65536 + lo,
         overflow |-> a # 0 /\ b > MaxI32 \div a]

\* `x as usize`, for an i32 x: sign-extended to 64 bits; the upper and the
\* lower 32 bits.
AsUsize(x) ==
    [upper |-> IF x >= 0 THEN U32(0) ELSE [hi |-> 65535, lo |-> 65535],
     lower |-> AsGLuint(x)]

\* data.len(), a usize.
DataLen(data) == [upper |-> U32(0), lower |-> U32(Len(data))]

\* enum TextureFormat
TextureFormats == {"RGB", "RGBA", "Grayscale", "GrayscaleAlpha"}

\* (internal_format, gl_format, pixel_size) of a format.
FormatTable(format) ==
    CASE format = "RGB" -> [internal_format |-> "RGB8", gl_format |-> "RGB", pixel_size |-> 3]
      [] format = "RGBA" -> [internal_format |-> "RGBA8", gl_format |-> "RGBA", pixel_size |-> 4]
      [] format = "Grayscale" -> [internal_format |-> "R8", gl_format |-> "RED", pixel_size |-> 1]
      [] format = "GrayscaleAlpha" ->
            [internal_format |-> "RG8", gl_format |-> "RG", pixel_size |-> 2]

\* GenTextures(1, &mut texture): the driver writes a fresh name, or leaves
\* texture as it is.
glGenTextures(g, texture, named) ==
    LET t == IF named /\ g.next_name <= MaxNames THEN g.next_name ELSE texture
        g1 == Logged(g, Call("GenTextures", t, 1, [error |-> "NO_ERROR"]))
    IN  IF t = texture THEN [g |-> g1, out |-> t]
        ELSE [g |-> [g1 EXCEPT !.next_name = @ + 1, !.live_textures = @ \cup {t}],
              out |-> t]

glBindTexture(g, target, texture, outcome) ==
    LET g1 == Raised(Logged(g, Call("BindTexture", texture, 0,
                                    [target |-> target, error |-> outcome.error])),
                     outcome.error)
    IN  IF outcome.bound THEN [g1 EXCEPT !.texture_binding = texture] ELSE g1

\* TexImage2D gives the texture bound to the target its image unless the
\* driver raises an error.
glTexImage2D(g, target, level, internalformat, width, height, border, format, type, pixels, error) ==
    LET image == [internalformat |-> internalformat, width |-> width, height |-> height,
                  format |-> format, type |-> type, pixels |-> pixels]
        g1 == Raised(Logged(g, Call("TexImage2D", g.texture_binding, level,
                                    [image |-> image, error |-> error])),
                     error)
    IN  IF error = "NO_ERROR"
        THEN [g1 EXCEPT !.texture_images =
                 [t \in DOMAIN @ \cup {g.texture_binding} |->
                     IF t = g.texture_binding THEN image ELSE @[t]]]
        ELSE g1

glTextureParameteri(g, texture, pname, param, error) ==
    LET g1 == Raised(Logged(g, Call("TextureParameteri", texture, 0,
                                    [pname |-> pname, param |-> param, error |-> error])),
                     error)
    IN  IF error = "NO_ERROR"
        THEN [g1 EXCEPT !.texture_params = @ \cup {<<texture, pname, param>>}]
        ELSE g1

\* TexParameteri sets the parameter of the texture bound to the target.
glTexParameteri(g, target, pname, param) ==
    [Logged(g, Call("TexParameteri", g.texture_binding, 0,
                    [pname |-> pname, param |-> param, error |-> "NO_ERROR"]))
        EXCEPT !.texture_params = @ \cup {<<g.texture_binding, pname, param>>}]

\* size[0] * size[1] * pixel_size, in i32.
ExpectedLen(size, pixel_size) ==
    LET area == I32Times(size[1], size[2])
        bytes == I32Mul(area.val, pixel_size)
    IN  [val |-> bytes.val, overflow |-> area.overflow \/ bytes.overflow]

SizeMismatch(fmt, expected, data) == Error(fmt, "", <<expected, Len(data)>>)

\* detail::create_texture_2d.  The arguments a are size and data, with
\* a.overflow_checks the build's setting; drv is what the driver decides for
\* the calls.
create_texture_2d(g, a, format, drv) ==
    LET f == FormatTable(format)
        expected == ExpectedLen(a.size, f.pixel_size)
    IN  IF Panics(a, expected) THEN Panicked(g)
        ELSE IF DataLen(a.data) # AsUsize(expected.val)
        THEN Returned(g, Err(SizeMismatch(
                 "create_texture_2d: Data length does not match size: expected {}, got {}",
                 expected.val, a.data)))
        ELSE
        LET gen == glGenTextures(g, 0, drv.gen)
            texture == gen.out
        IN  IF texture = 0
            THEN Returned(gen.g, Err(Error("Failed to generate texture", "", <<>>)))
            ELSE
            LET g1 == glBindTexture(gen.g, "TEXTURE_2D", texture, drv.bind)
                e == glGetError(g1)
            IN  IF e.out # "NO_ERROR"
                THEN Returned(e.g, Err(Error("Failed to bind texture", "", <<>>)))
                ELSE
                LET g2 == glTexImage2D(e.g, "TEXTURE_2D", 0, f.internal_format,
                                       a.size[1], a.size[2], 0, f.gl_format,
                                       "UNSIGNED_BYTE", a.data, drv.upload)
                    g3 == glTextureParameteri(g2, texture, "TEXTURE_MIN_FILTER", "LINEAR",
                                              drv.param)
                    g4 == glTextureParameteri(g3, texture, "TEXTURE_MAG_FILTER", "LINEAR",
                                              "NO_ERROR")
                    g5 == glTextureParameteri(g4, texture, "TEXTURE_WRAP_S", "CLAMP_TO_EDGE",
                                              "NO_ERROR")
                    g6 == glTextureParameteri(g5, texture, "TEXTURE_WRAP_T", "CLAMP_TO_EDGE",
                                              "NO_ERROR")
                    g7 == IF format \in {"Grayscale", "GrayscaleAlpha"}
                          THEN glTexParameteri(
                                   glTexParameteri(g6, "TEXTURE_2D", "TEXTURE_SWIZZLE_G", "RED"),
                                   "TEXTURE_2D", "TEXTURE_SWIZZLE_B", "RED")
                          ELSE g6
                IN  Returned(g7, Ok(texture))

\* The body the four public functions share: the size test of the function,
\* then detail::create_texture_2d, its error wrapped in the function's name.
TextureWrapper(g, a, drv, format, mismatch, prefix) ==
    LET expected == ExpectedLen(a.size, FormatTable(format).pixel_size)
    IN  IF Panics(a, expected) THEN Panicked(g)
        ELSE IF DataLen(a.data) # AsUsize(expected.val)
        THEN Returned(g, Err(SizeMismatch(mismatch, expected.val, a.data)))
        ELSE
        LET r == create_texture_2d(g, a, format, drv)
        IN  IF r.panicked \/ r.res.ok THEN r
            ELSE Returned(r.g, Err(Error(prefix, "", r.res.err)))

create_texture_2d_rgb(g, a, drv) ==
    TextureWrapper(g, a, drv, "RGB",
        "create_texture_2d_rgb: Data length does not match size: expected {}, got {}",
        "create_texture_2d_rgb: {}")

create_texture_2d_rgba(g, a, drv) ==
    TextureWrapper(g, a, drv, "RGBA",
        "create_texture_2d_rgba: Data length does not match size: expected {}, got {}",
        "create_texture_2d_rgba: {}")

create_texture_2d_grayscale(g, a, drv) ==
    TextureWrapper(g, a, drv, "Grayscale",
        "create_texture_2d_grayscale: Data length does not match size: expected {}, got {}",
        "create_texture_2d_grayscale: {}")

create_texture_2d_grayscale_alpha(g, a, drv) ==
    TextureWrapper(g, a, drv, "GrayscaleAlpha",
        "create_texture_2d_grayscale_alpha: Data length does not match size: expected {}, got {}",
        "create_texture_2d_grayscale_alpha: {}")

(***************************************************************************)
(* One call of a create_texture_2d_* function: the arguments, the texture  *)
(* bound and the error flags pending are drawn by InitTexture.             *)
(***************************************************************************)
\* Widths and heights: small ones, and one whose products leave i32.
Dimensions == {0, 1, 2, 32768}

TextureCalls ==
    [function : TextureFormats, size : Dimensions \X Dimensions,
     data : SeqsUpTo(DataBytes, MaxPixelDataLen), overflow_checks : BOOLEAN]

\* What the driver decides for the calls of one texture creation.  After
\* OUT_OF_MEMORY the state is undefined: the texture may or may not be bound.
TextureDriver ==
    [gen : BOOLEAN,
     bind : {[bound |-> TRUE, error |-> "NO_ERROR"],
             [bound |-> FALSE, error |-> "OUT_OF_MEMORY"],
             [bound |-> TRUE, error |-> "OUT_OF_MEMORY"]},
     upload : {"NO_ERROR", "INVALID_VALUE"},
     param : {"NO_ERROR", "OUT_OF_MEMORY"}]

\* The driver when the call is made: no texture yet, or a texture of other
\* code that is bound, or an error flag that other code has left pending.
TextureContexts ==
    {GlInit,
     [GlInit EXCEPT !.next_name = 2, !.live_textures = {1}, !.texture_binding = 1],
     [GlInit EXCEPT !.errors = {"INVALID_ENUM"}]}

InitTexture ==
    /\ pending \in TextureCalls
    /\ gl \in TextureContexts
    /\ ret = NoCall
    /\ builder = "none"
    /\ shaders = <<>>

CreateTexture ==
    /\ pending # <<>>
    /\ \E drv \in TextureDriver :
          LET g == ClearLog(gl)
              r == CASE pending.function = "RGB" -> create_texture_2d_rgb(g, pending, drv)
                     [] pending.function = "RGBA" -> create_texture_2d_rgba(g, pending, drv)
                     [] pending.function = "Grayscale" ->
                            create_texture_2d_grayscale(g, pending, drv)
                     [] pending.function = "GrayscaleAlpha" ->
                            create_texture_2d_grayscale_alpha(g, pending, drv)
          IN  /\ gl' = r.g
              /\ ret' = [op |-> "create_texture_2d", args |-> pending, res |-> r.res,
                         panicked |-> r.panicked, stale |-> gl.errors]
    /\ pending' = <<>>
    /\ UNCHANGED <<builder, shaders>>

NextTexture == CreateTexture

SpecTexture == InitTexture /\ [][NextTexture]_vars

(***************************************************************************)
(* Reading the driver's call log.                                          *)
(***************************************************************************)
\* The places in the log of the calls of fn.
Called(fn) == {i \in DOMAIN gl.log : gl.log[i].fn = fn}

\* The places in the log of the calls of fn on obj.
CalledOn(fn, obj) == {i \in Called(fn) : gl.log[i].obj = obj}

\* The places in the log of the calls of fn on obj with argument arg.
CalledWith(fn, obj, arg) == {i \in CalledOn(fn, obj) : gl.log[i].arg = arg}

\* The shader handles the builder holds.
Held == {shaders[t] : t \in DOMAIN shaders}

\* The shaders created through the driver so far.
CreatedShaders == DOMAIN gl.deletes

(***************************************************************************)
(* C1: every shader created during a builder's life has been deleted       *)
(* exactly once when the builder is gone, however its life went.           *)
(***************************************************************************)
C1_EveryShaderDeletedExactlyOnce ==
    builder = "gone" => \A h \in CreatedShaders : gl.deletes[h] = 1

\* No shader is ever deleted twice, and one that has been deleted is gone.
C1_NoDoubleDelete ==
    \A h \in CreatedShaders :
        /\ gl.deletes[h] <= 1
        /\ gl.deletes[h] = 1 => h \notin gl.live_shaders

\* The one way a shader leaks: with_shader was given a source with an
\* interior NUL byte, and compile_shader returned between CreateShader and
\* CompileShader.
C1_LeakOnlyByNulSource ==
    (builder = "gone" /\ \E h \in CreatedShaders : gl.deletes[h] = 0)
        => /\ ret.op = "with_shader"
           /\ ret.res = CStringNew(ret.args.source)
           /\ \E i \in DOMAIN ret.args.source : ret.args.source[i] = 0
           /\ Cardinality({h \in CreatedShaders : gl.deletes[h] = 0}) = 1

(***************************************************************************)
(* C2, as claimed: a with_shader for a stage the builder already holds     *)
(* fails with the duplicate-stage error, creates and compiles nothing,     *)
(* leaves the map as it was, and leaves the handle stored by the first add *)
(* alive.                                                                  *)
(***************************************************************************)
DuplicateStageCall ==
    /\ builder = "alive"
    /\ ret'.op = "with_shader"
    /\ ret'.args.shader_type \in DOMAIN shaders

DuplicateStageFails ==
    /\ ret'.res = Err(Error("{} Shader type already added",
                            shader_type_name(ret'.args.shader_type).val, <<>>))
    /\ shaders' = shaders
    /\ gl'.next_name = gl.next_name
    /\ \A i \in DOMAIN gl'.log :
          gl'.log[i].fn \notin {"CreateShader", "ShaderSource", "CompileShader"}

C2_DuplicateStageLeavesFirstHandle ==
    [][DuplicateStageCall =>
          /\ DuplicateStageFails
          /\ LET first == shaders[ret'.args.shader_type]
             IN  /\ first \in gl'.live_shaders
                 /\ gl'.deletes[first] = gl.deletes[first]]_vars

(***************************************************************************)
(* C2, amended: such a call fails with the duplicate-stage error, creates  *)
(* and compiles nothing and stores no handle, but it consumes the builder: *)
(* every handle the builder holds, the one of the first add included, is   *)
(* deleted, once, as the call returns.                                     *)
(***************************************************************************)
C2_DuplicateStageDropsBuilder ==
    [][DuplicateStageCall =>
          /\ DuplicateStageFails
          /\ builder' = "gone"
          /\ \A h \in Held :
                /\ h \notin gl'.live_shaders
                /\ gl'.deletes[h] = gl.deletes[h] + 1
                /\ Cardinality({i \in DOMAIN gl'.log :
                                  gl'.log[i] = Call("DeleteShader", h, 0, <<>>)}) = 1]_vars

C2_Witness ==
    /\ ret.op = "with_shader"
    /\ ret.args.shader_type \in DOMAIN shaders
    /\ ret.res.err.fmt = "{} Shader type already added"
    /\ builder = "gone"
    /\ Cardinality(Held) = 2

(***************************************************************************)
(* C3: build on a builder that holds no shader fails with the              *)
(* empty-program error and makes no driver call: no CreateProgram, and the *)
(* driver's objects are those that were there before.                      *)
(***************************************************************************)
C3_BuildOfEmptyBuilder ==
    [][(builder = "alive" /\ DOMAIN shaders = {} /\ ret'.op = "build") =>
          /\ ret'.res = Err(Error("No shaders added to the program", "", <<>>))
          /\ gl'.log = <<>>
          /\ gl' = ClearLog(gl)]_vars

C3_Witness ==
    /\ ret.op = "build"
    /\ DOMAIN shaders = {}
    /\ ~ret.res.ok
    /\ builder = "gone"

(***************************************************************************)
(* C4: once build has created a program object, every shader of the        *)
(* builder is attached to it, and detached again after the link, whether   *)
(* the link succeeds or fails; when the link fails the program is deleted  *)
(* and the link error, with the driver's text, is returned.  Afterwards no *)
(* shader is attached to any program, and after a failed build no program  *)
(* remains.                                                                *)
(***************************************************************************)
\* The program object the last call created, or 0.
ProgramCreated ==
    IF \E i \in Called("CreateProgram") : gl.log[i].obj # 0
    THEN gl.log[CHOOSE i \in Called("CreateProgram") : gl.log[i].obj # 0].obj
    ELSE 0

C4_DetachAlwaysDeleteOnLinkFailure ==
    (ret.op = "build" /\ ProgramCreated # 0) =>
        LET p == ProgramCreated
            link == CalledOn("LinkProgram", p)
        IN  /\ Cardinality(link) = 1
            /\ \A s \in Held :
                  /\ Cardinality(CalledWith("AttachShader", p, s)) = 1
                  /\ Cardinality(CalledWith("DetachShader", p, s)) = 1
                  /\ \A a \in CalledWith("AttachShader", p, s), l \in link,
                        d \in CalledWith("DetachShader", p, s) : a < l /\ l < d
            /\ gl.attached = {}
            /\ ret.res.ok <=> gl.program_status[p].ok
            /\ ~gl.program_status[p].ok =>
                  /\ ret.res.err.fmt = "Program linking failed: {}"
                  /\ SubSeq(ret.res.err.text, 1, Len(gl.program_status[p].log))
                        = gl.program_status[p].log
                  /\ gl.program_deletes[p] = 1
                  /\ \A d \in CalledOn("DeleteProgram", p), s \in Held :
                        \A e \in CalledWith("DetachShader", p, s) : e < d
                  /\ gl.live_programs = {}

C4_Witness ==
    /\ ret.op = "build"
    /\ ProgramCreated # 0
    /\ ~ret.res.ok
    /\ Cardinality(Held) = 2
    /\ ret.res.err.text # <<>>

(***************************************************************************)
(* C5: a build of a builder holding k >= 1 shaders whose link succeeds     *)
(* returns a program that is alive and was never deleted; exactly k        *)
(* shaders were created during the builder's life; and each is deleted,    *)
(* once, after the link and after its own detach.                          *)
(***************************************************************************)
C5_SuccessfulBuild ==
    (ret.op = "build" /\ ret.res.ok) =>
        LET p == ret.res.val
        IN  /\ Cardinality(DOMAIN shaders) >= 1
            /\ p # 0
            /\ p \in gl.live_programs
            /\ gl.program_deletes[p] = 0
            /\ Called("DeleteProgram") = {}
            /\ gl.program_status[p].ok
            /\ CreatedShaders = Held
            /\ Cardinality(CreatedShaders) = Cardinality(DOMAIN shaders)
            /\ \A s \in Held :
                  /\ gl.deletes[s] = 1
                  /\ s \notin gl.live_shaders
                  /\ s \notin gl.flagged
                  /\ Cardinality(CalledOn("DeleteShader", s)) = 1
                  /\ \A x \in CalledOn("DeleteShader", s) :
                        /\ \E l \in CalledOn("LinkProgram", p) : l < x
                        /\ \E d \in CalledWith("DetachShader", p, s) : d < x
                        /\ \A a \in CalledWith("AttachShader", p, s) : a < x

C5_Witness ==
    /\ ret.op = "build"
    /\ ret.res.ok
    /\ Cardinality(DOMAIN shaders) = 2
    /\ {"VERTEX_SHADER", "FRAGMENT_SHADER"} = DOMAIN shaders

(***************************************************************************)
(* C6: when the driver reports that the compilation failed, with_shader    *)
(* returns the compile error, which names the stage and carries the        *)
(* driver's diagnostic; the shader created for it has been deleted; and    *)
(* the builder's map holds nothing for the stage, nor the failed handle.   *)
(***************************************************************************)
\* The shader the last call gave to CompileShader, or 0.
ShaderCompiled ==
    IF Called("CompileShader") # {}
    THEN gl.log[CHOOSE i \in Called("CompileShader") : TRUE].obj
    ELSE 0

CompileFailed ==
    /\ ret.op = "with_shader"
    /\ ShaderCompiled # 0
    /\ ~gl.shader_status[ShaderCompiled].ok

C6_CompileFailure ==
    CompileFailed =>
        LET h == ShaderCompiled
            diagnostic == gl.shader_status[h].log
        IN  /\ ~ret.res.ok
            /\ ret.res.err.fmt = "{} Shader compilation failed: {}"
            /\ ret.res.err.name = shader_type_name(ret.args.shader_type).val
            /\ SubSeq(ret.res.err.text, 1, Len(diagnostic)) = diagnostic
            /\ h \notin gl.live_shaders
            /\ gl.deletes[h] = 1
            /\ ret.args.shader_type \notin DOMAIN shaders
            /\ h \notin Held

C6_Witness ==
    /\ CompileFailed
    /\ ret.args.shader_type = "VERTEX_SHADER"
    /\ gl.shader_status[ShaderCompiled].log # <<>>
    /\ DOMAIN shaders = {}

(***************************************************************************)
(* C7: for a non-empty sizes of positive component counts, a recognised    *)
(* component type of width w and any start_index, the call enables and     *)
(* specifies, for each i, exactly one attribute at index start_index + i,  *)
(* with sizes[i] components, stride w * sum(sizes) and offset              *)
(* w * sum(sizes[0..i]).                                                   *)
(***************************************************************************)
\* The sum of the first k elements of sizes if it is at most limit, and -1
\* if it is larger (in the integers, not in i32).
RECURSIVE SumWithin(_, _, _)
SumWithin(sizes, k, limit) ==
    IF k = 0 THEN 0
    ELSE LET rest == SumWithin(sizes, k - 1, limit)
         IN  IF rest = -1 \/ sizes[k] > limit - rest THEN -1 ELSE rest + sizes[k]

EnableCall == ret.op = "enable_interleaved_vertex_array_attributes"

ValidLayoutCall ==
    /\ EnableCall
    /\ ret.args.sizes # <<>>
    /\ \A i \in DOMAIN ret.args.sizes : ret.args.sizes[i] > 0
    /\ ret.args.type_ \in ComponentTypes

\* The width in bytes of a component of the call's type.
Width ==
    CASE ret.args.type_ = "FLOAT" -> 4
      [] ret.args.type_ = "DOUBLE" -> 8
      [] ret.args.type_ \in {"BYTE", "UNSIGNED_BYTE"} -> 1
      [] ret.args.type_ \in {"SHORT", "UNSIGNED_SHORT"} -> 2
      [] ret.args.type_ \in {"INT", "UNSIGNED_INT"} -> 4

\* sum(sizes), or -1 when Width * sum(sizes) is no i32.
LayoutSum == SumWithin(ret.args.sizes, Len(ret.args.sizes), MaxI32 \div Width)

\* The indices start_index + i are i32.
IndicesInRange == ret.args.start_index <= MaxI32 - (Len(ret.args.sizes) - 1)

LayoutAsClaimed ==
    LET a == ret.args
        n == Len(a.sizes)
    IN  /\ ~ret.panicked
        /\ ret.res = Ok(0)
        /\ LayoutSum # -1
        /\ IndicesInRange
        /\ Cardinality(Called("EnableVertexAttribArray")) = n
        /\ Cardinality(Called("VertexAttribPointer")) = n
        /\ \A i \in 1..n :
              LET index == AsGLuint(a.start_index + (i - 1))
                  enable == {e \in Called("EnableVertexAttribArray") : gl.log[e].obj = index}
                  pointer == {e \in Called("VertexAttribPointer") : gl.log[e].obj = index}
              IN  /\ Cardinality(enable) = 1
                  /\ Cardinality(pointer) = 1
                  /\ \A e \in pointer :
                        /\ gl.log[e].arg = a.sizes[i]
                        /\ gl.log[e].txt.type_ = a.type_
                        /\ gl.log[e].txt.stride = Width * LayoutSum
                        /\ gl.log[e].txt.pointer
                              = [upper |-> U32(0),
                                 lower |-> U32(Width * SumWithin(a.sizes, i - 1, MaxI32))]

C7_StrideAndOffsetsForEveryLayout == ValidLayoutCall => LayoutAsClaimed

\* The layout is as claimed whenever Width * sum(sizes) and the indices are
\* i32.
C7_StrideAndOffsetsWithinI32 ==
    (ValidLayoutCall /\ LayoutSum # -1 /\ IndicesInRange) => LayoutAsClaimed

\* When Width * sum(sizes) is no i32, a build that checks overflow panics
\* before any driver call, and one that does not hands the driver a wrapped
\* stride.
C7_OverflowPanicsOrWraps ==
    (ValidLayoutCall /\ LayoutSum = -1) =>
        IF ret.args.overflow_checks
        THEN ret.panicked /\ gl.log = <<>>
        ELSE /\ ~ret.panicked
             /\ ret.res = Ok(0)
             /\ LET sum == SumWithin(ret.args.sizes, Len(ret.args.sizes), MaxI32)
                IN  \A e \in Called("VertexAttribPointer") :
                       sum = -1 \/ gl.log[e].txt.stride \div Width < sum

C7_WitnessWithinI32 ==
    /\ ValidLayoutCall
    /\ ret.args.sizes = <<3, 1>>
    /\ ret.args.type_ = "FLOAT"
    /\ ret.args.start_index = 3
    /\ ret.res.ok

(***************************************************************************)
(* C8: when sizes is empty, or the component type is not one of the eight, *)
(* the call returns the error and nothing else happens: no driver call, no *)
(* attribute enabled or specified, and the vertex-array and array-buffer   *)
(* bindings are what they were.                                            *)
(***************************************************************************)
C8_ValidationFailureChangesNothing ==
    [][(pending # <<>> /\ (pending.sizes = <<>> \/ pending.type_ \notin ComponentTypes)) =>
          /\ ~ret'.panicked
          /\ ret'.res =
                IF pending.sizes = <<>>
                THEN Err(Error("enable_interleaved_vertex_attributes: Sizes array is empty",
                               "", <<>>))
                ELSE Err(Error("enable_interleaved_vertex_attributes: Invalid type: {}",
                               pending.type_, <<>>))
          /\ gl'.log = <<>>
          /\ gl'.vertex_array_binding = gl.vertex_array_binding
          /\ gl'.array_buffer_binding = gl.array_buffer_binding
          /\ gl' = ClearLog(gl)]_vars

C8_Witness ==
    /\ EnableCall
    /\ ~ret.res.ok
    /\ ret.args.sizes # <<>>
    /\ ret.args.type_ \notin ComponentTypes
    /\ gl.vertex_array_binding \notin {0, ret.args.vao}
    /\ gl.array_buffer_binding \notin {0, ret.args.buffer}

(***************************************************************************)
(* C9, as claimed: create_buffer with empty data fails with the empty-data *)
(* error, and create_buffer with a usage that is none of the nine fails    *)
(* with the invalid-usage error; either way no driver call is made, no     *)
(* buffer is allocated, and the driver's state, its pending errors         *)
(* included, is as before.                                                 *)
(***************************************************************************)
C9_RejectedBeforeAnyDriverCall ==
    [][pending # <<>> =>
          /\ pending.data = <<>> => (ret'.res = Err(EmptyData) /\ gl' = gl)
          /\ pending.usage \notin VALID_USAGES =>
                (ret'.res = Err(InvalidUsage(pending.usage)) /\ gl' = gl)]_vars

(***************************************************************************)
(* C9, amended: create_buffer with empty data fails with the empty-data    *)
(* error, whatever the usage; create_buffer with data that is not empty    *)
(* and a usage that is none of the nine fails with the invalid-usage       *)
(* error; either way no driver call is made, no buffer is allocated, and   *)
(* the driver's state, its pending errors included, is as before.          *)
(***************************************************************************)
C9_RejectedBeforeAnyDriverCallEmptyFirst ==
    [][pending # <<>> =>
          /\ pending.data = <<>> => ret'.res = Err(EmptyData)
          /\ (pending.data # <<>> /\ pending.usage \notin VALID_USAGES) =>
                ret'.res = Err(InvalidUsage(pending.usage))
          /\ (pending.data = <<>> \/ pending.usage \notin VALID_USAGES) =>
                /\ gl'.log = <<>>
                /\ gl'.live_buffers = gl.live_buffers
                /\ gl'.next_name = gl.next_name
                /\ gl'.errors = gl.errors
                /\ gl' = gl]_vars

C9_Witness ==
    /\ ret.op = "create_buffer"
    /\ ret.args.data # <<>>
    /\ ret.args.usage \notin VALID_USAGES
    /\ ret.res = Err(InvalidUsage(ret.args.usage))
    /\ gl.errors = {"INVALID_ENUM", "INVALID_OPERATION"}
    /\ gl.log = <<>>

(***************************************************************************)
(* C10: whenever create_buffer returns an error after CreateBuffers has    *)
(* produced a buffer, that buffer has been deleted; and whenever it        *)
(* returns Ok(b), b is not 0 and the driver has accepted its upload.       *)
(***************************************************************************)
\* The buffers the last call's CreateBuffers produced.
BuffersMade == {gl.log[i].obj : i \in Called("CreateBuffers")} \ {0}

ErrorLeavesNoBuffer ==
    (ret.op = "create_buffer" /\ ~ret.res.ok) =>
        \A b \in BuffersMade : b \notin gl.live_buffers /\ gl.buffer_deletes[b] = 1

C10_OkIsInitialised ==
    (ret.op = "create_buffer" /\ ret.res.ok) =>
        /\ ret.res.val # 0
        /\ BuffersMade = {ret.res.val}
        /\ ret.res.val \in gl.live_buffers
        /\ ret.res.val \in DOMAIN gl.buffer_data
        /\ gl.buffer_data[ret.res.val]
              = [size |-> Len(ret.args.data) * ret.args.size_of, usage |-> ret.args.usage]
        /\ gl.errors = {}

C10_NoHalfInitialisedBuffer == ErrorLeavesNoBuffer /\ C10_OkIsInitialised

\* A buffer whose upload the driver refused has been deleted.
C10_FailedUploadDeletesBuffer ==
    (ret.op = "create_buffer" /\ Called("NamedBufferData") # {} /\ ~ret.res.ok) =>
        /\ ret.res.err.fmt = "Failed to set buffer data: {}"
        /\ \A b \in BuffersMade : b \notin gl.live_buffers /\ gl.buffer_deletes[b] = 1

\* The one way a buffer is left behind: CreateBuffers wrote a name and raised
\* an error, and create_buffer returned that error.
C10_LeakOnlyByErrorOfCreateBuffers ==
    (ret.op = "create_buffer" /\ ~ErrorLeavesNoBuffer) =>
        /\ ret.res.err.fmt = "Failed to create buffer: {}"
        /\ Called("NamedBufferData") = {}
        /\ Called("DeleteBuffers") = {}

(***************************************************************************)
(* C11: whenever texture creation returns an error after GenTextures has   *)
(* produced a texture, that texture has been deleted: none of the textures *)
(* the call generated is alive when the error is returned.                 *)
(***************************************************************************)
TextureCall == ret.op = "create_texture_2d" /\ ~ret.panicked

\* The textures the last call's GenTextures produced.
TexturesMade == {gl.log[i].obj : i \in Called("GenTextures")} \ {0}

C11_ErrorLeavesNoTexture ==
    (TextureCall /\ ~ret.res.ok) => \A t \in TexturesMade : t \notin gl.live_textures

\* The one way a texture is left behind: the test after BindTexture read an
\* error flag, one the bind raised or one that was pending, and the call
\* returned "Failed to bind texture".
C11_LeakOnlyByBindTest ==
    (TextureCall /\ ~C11_ErrorLeavesNoTexture) =>
        /\ ret.res.err.text.fmt = "Failed to bind texture"
        /\ Called("TexImage2D") = {}
        /\ \E i \in Called("GetError") : gl.log[i].txt # "NO_ERROR"

(***************************************************************************)
(* C12: for each of the four formats and all non-negative widths and       *)
(* heights, a call whose data.len() is not width * height *                *)
(* bytes_per_pixel returns the size-mismatch error of the function called  *)
(* before any driver call: no texture is generated and the driver's state, *)
(* its texture binding included, is as before; a call whose data.len() is  *)
(* that product passes the size test.                                      *)
(***************************************************************************)
\* a * b if it is at most limit, and -1 if it is larger or a factor is -1
\* (in the integers, not in i32).
MulWithin(a, b, limit) ==
    IF a = -1 \/ b = -1 THEN -1
    ELSE IF a = 0 \/ b = 0 THEN 0
    ELSE IF a > limit \div b THEN -1
    ELSE a * b

BytesPerPixel(function) ==
    CASE function = "Grayscale" -> 1
      [] function = "GrayscaleAlpha" -> 2
      [] function = "RGB" -> 3
      [] function = "RGBA" -> 4

\* width * height * bytes_per_pixel of the call a, or -1 when it is no i32.
PixelBytes(a) ==
    MulWithin(MulWithin(a.size[1], a.size[2], MaxI32), BytesPerPixel(a.function), MaxI32)

\* data.len() of the call a is width * height * bytes_per_pixel.
LenMatches(a) == PixelBytes(a) # -1 /\ Len(a.data) = PixelBytes(a)

MismatchFormat(function) ==
    CASE function = "Grayscale" ->
            "create_texture_2d_grayscale: Data length does not match size: expected {}, got {}"
      [] function = "GrayscaleAlpha" ->
            "create_texture_2d_grayscale_alpha: Data length does not match size: expected {}, got {}"
      [] function = "RGB" ->
            "create_texture_2d_rgb: Data length does not match size: expected {}, got {}"
      [] function = "RGBA" ->
            "create_texture_2d_rgba: Data length does not match size: expected {}, got {}"

\* The call a, made in the state before the step, failed its size test.
FailsSizeTest(a) ==
    /\ ~ret'.panicked
    /\ ~ret'.res.ok
    /\ ret'.res.err.fmt = MismatchFormat(a.function)
    /\ gl'.log = <<>>
    /\ gl'.live_textures = gl.live_textures
    /\ gl'.texture_binding = gl.texture_binding
    /\ gl' = ClearLog(gl)

\* The call a, made in the state before the step, passed its size test.
PassesSizeTest(a) ==
    /\ ~ret'.panicked
    /\ Len(gl'.log) > 0
    /\ gl'.log[1].fn = "GenTextures"

NonNegativeSize(a) == a.size[1] >= 0 /\ a.size[2] >= 0

C12_SizeTestForEverySize ==
    [][(pending # <<>> /\ NonNegativeSize(pending)) =>
          IF LenMatches(pending) THEN PassesSizeTest(pending)
          ELSE FailsSizeTest(pending)]_vars

\* The size test is as claimed whenever width * height * bytes_per_pixel is
\* an i32.
C12_SizeTestWithinI32 ==
    [][(pending # <<>> /\ NonNegativeSize(pending) /\ PixelBytes(pending) # -1) =>
          IF LenMatches(pending) THEN PassesSizeTest(pending)
          ELSE FailsSizeTest(pending)]_vars

\* When the product is no i32, a build that checks overflow panics before
\* any driver call, and one that does not compares data.len() with the
\* wrapped product.
C12_OverflowPanicsOrWraps ==
    [][(pending # <<>> /\ PixelBytes(pending) = -1) =>
          IF pending.overflow_checks
          THEN ret'.panicked /\ gl'.log = <<>>
          ELSE LET wrapped == ExpectedLen(pending.size, BytesPerPixel(pending.function)).val
               IN  IF wrapped >= 0 /\ Len(pending.data) = wrapped
                   THEN PassesSizeTest(pending)
                   ELSE FailsSizeTest(pending)]_vars

(***************************************************************************)
(* C13: whenever texture creation returns Ok, the driver has accepted      *)
(* every call the function made: no call of BindTexture, TexImage2D,       *)
(* TextureParameteri or TexParameteri raised an error.                     *)
(***************************************************************************)
TextureCommands ==
    {"GenTextures", "BindTexture", "TexImage2D", "TextureParameteri", "TexParameteri"}

\* The places in the log of the calls for which the driver raised an error.
Refused ==
    {i \in DOMAIN gl.log :
        gl.log[i].fn \in TextureCommands /\ gl.log[i].txt.error # "NO_ERROR"}

C13_OkMeansEveryCallAccepted == (TextureCall /\ ret.res.ok) => Refused = {}

\* What is reported: an error of BindTexture.  With Ok returned, a call that
\* was refused is TexImage2D or TextureParameteri, which no test follows.
C13_OnlyBindIsTested ==
    (TextureCall /\ ret.res.ok) =>
        /\ \A i \in Refused : gl.log[i].fn \in {"TexImage2D", "TextureParameteri"}
        /\ gl.errors = {e \in ErrorCodes : \E i \in Refused : gl.log[i].txt.error = e}

\* A texture returned although its upload was refused has no image.
C13_OkWithoutImage ==
    (TextureCall /\ ret.res.ok /\ \E i \in Refused : gl.log[i].fn = "TexImage2D") =>
        ret.res.val \notin DOMAIN gl.texture_images

(***************************************************************************)
(* C14: when enable_interleaved_vertex_array_attributes returns Ok, the    *)
(* vertex array bound is the given vao and the buffer bound to             *)
(* ARRAY_BUFFER is the given buffer, whatever was bound before; the two    *)
(* binds are the first driver calls of the function, before any attribute  *)
(* is enabled or specified, so that every attribute the call enables or    *)
(* specifies belongs to the given vao and reads from the given buffer.     *)
(***************************************************************************)
AttributeCalls == Called("EnableVertexAttribArray") \cup Called("VertexAttribPointer")

BindCalls == Called("BindVertexArray") \cup Called("BindBuffer")

BufferCall == ret.op = "create_buffer"

ValidBufferInput == ret.args.data # <<>> /\ ret.args.usage \in VALID_USAGES

DriverAccepts ==
    /\ ret.drv.create = [named |-> TRUE, error |-> "NO_ERROR"]
    /\ ret.drv.upload = "NO_ERROR"

\* The error returned is an error of the call's own driver calls.
OwnError ==
    IF ret.drv.create.error # "NO_ERROR"
    THEN /\ ret.res.err.fmt = "Failed to create buffer: {}"
         /\ ret.res.err.text.name = ret.drv.create.error
    ELSE IF ~ret.drv.create.named
    THEN ret.res.err.fmt = "gl::CreateBuffers returned an invalid buffer ID (0)"
    ELSE /\ ret.drv.upload # "NO_ERROR"
         /\ ret.res.err.fmt = "Failed to set buffer data: {}"
         /\ ret.res.err.text.name = ret.drv.upload

C15_StaleErrorsDoNotDecide ==
    BufferCall =>
        /\ (ValidBufferInput /\ DriverAccepts) => ret.res.ok
        /\ (ValidBufferInput /\ ~ret.res.ok) => OwnError
        /\ ret.res = create_buffer(GlInit, ret.args, ret.drv).res

\* A call with valid input and two flags pending, of which the driver
\* accepted both commands: Ok, and nothing pending afterwards.
C15_Witness ==
    /\ BufferCall
    /\ ValidBufferInput
    /\ DriverAccepts
    /\ ret.stale = {"INVALID_ENUM", "INVALID_OPERATION"}
    /\ ret.res.ok
    /\ gl.errors = {}

====
